---- MODULE Spec2Model ----
(***************************************************************************)
(* A model of ndtm-rs: the copy-on-write tape (cells.rs, cache.rs,         *)
(* tape/mod.rs), the rule store (rules/mod.rs) and the branch scheduler    *)
(* (machine/mod.rs) driven as bin.rs drives it.                            *)
(*                                                                         *)
(* Reference-counted pointers are modelled by a heap H = [b, c, p]:        *)
(*   H.b  the Rc<RefCell<[u8; W]>> buffers, each with its strong count     *)
(*   H.c  the Rc<RefCell<Cell<W>>> cells,   each with its strong count     *)
(*   H.p  the message of the first panic raised, "" when none              *)
(* An address is an index in H.b / H.c; a freed slot (rc = 0) is reused.   *)
(***************************************************************************)
EXTENDS Integers, Sequences, FiniteSets, TLC

\* ------------------------------------------------------------------ bounds
\* Width of a cell (the const generic parameter W of Tape / Cache / Cell).
W == 2

\* Option::None of a buffer
None == << >>

\* ------------------------------------------------------------------ heap
EmptyHeap == [b |-> << >>, c |-> << >>, p |-> ""]

FreeBuf == [buf |-> << >>, rc |-> 0]

EdgeLink == [t |-> "Edge", rc |-> 0]

NoneLink == [t |-> "None", rc |-> 0]

FreeCell == [cell |-> [kind |-> "Empty", buffer |-> 0, next |-> NoneLink], rc |-> 0]

\* panic!(msg): the first panic is the one the process dies of
Panic(H, msg) == IF H.p = "" THEN [H EXCEPT !.p = msg] ELSE H

\* the address the allocator hands out: the lowest free slot
FreeIdx(s) ==
  IF \E i \in 1..Len(s) : s[i].rc = 0
  THEN CHOOSE i \in 1..Len(s) : s[i].rc = 0 /\ \A j \in 1..(i-1) : s[j].rc # 0
  ELSE Len(s) + 1

Put(s, i, e) == IF i = Len(s) + 1 THEN Append(s, e) ELSE [s EXCEPT ![i] = e]

\* freed slots at the end of the heap are given back
RECURSIVE Trim(_)
Trim(s) == IF Len(s) > 0 /\ s[Len(s)].rc = 0 THEN Trim(SubSeq(s, 1, Len(s) - 1)) ELSE s

\* Rc::new(RefCell::new(buff))
NewBuf(H, buff) ==
  LET i == FreeIdx(H.b)
  IN  [id |-> i, H |-> [H EXCEPT !.b = Put(H.b, i, [buf |-> buff, rc |-> 1])]]

\* buffer.clone()
CloneBuf(H, i) == [H EXCEPT !.b[i].rc = @ + 1]

\* drop of an Rc<RefCell<[u8; W]>>
DropBuf(H, i) ==
  IF H.b[i].rc > 1 THEN [H EXCEPT !.b[i].rc = @ - 1]
  ELSE [H EXCEPT !.b = Trim([H.b EXCEPT ![i] = FreeBuf])]

\* Rc::new(RefCell::new(cell))
NewCell(H, cell) ==
  LET i == FreeIdx(H.c)
  IN  [id |-> i, H |-> [H EXCEPT !.c = Put(H.c, i, [cell |-> cell, rc |-> 1])]]

\* rc.clone()
CloneCell(H, i) == [H EXCEPT !.c[i].rc = @ + 1]

\* drop of a Link: the last reference to a cell drops the cell, that is its
\* buffer and its own next link
RECURSIVE DropLink(_, _)
DropLink(l, H) ==
  IF l.t \in {"Same", "Uncle"}
  THEN LET e == H.c[l.rc]
       IN  IF e.rc > 1 THEN [H EXCEPT !.c[l.rc].rc = @ - 1]
           ELSE LET H1 == [H EXCEPT !.c = Trim([H.c EXCEPT ![l.rc] = FreeCell])]
                    H2 == IF e.cell.kind = "Empty" THEN H1 ELSE DropBuf(H1, e.cell.buffer)
                IN  DropLink(e.cell.next, H2)
  ELSE H

\* drop of a Cell held by value
DropCell(c, H) ==
  DropLink(c.next, IF c.kind = "Empty" THEN H ELSE DropBuf(H, c.buffer))

\* ------------------------------------------------------------------ cells.rs
\* Link::to_uncle as it would be if a Same link were cloned as a Same link
to_uncle_same(l, H) ==
  CASE l.t = "Edge"  -> [link |-> EdgeLink, H |-> H]
    [] l.t = "Same"  -> [link |-> [t |-> "Same", rc |-> l.rc], H |-> CloneCell(H, l.rc)]
    [] l.t = "Uncle" -> [link |-> [t |-> "Uncle", rc |-> l.rc], H |-> CloneCell(H, l.rc)]
    [] l.t = "None"  -> [link |-> NoneLink, H |-> H]

\* Link::to_uncle
to_uncle(l, H) ==
  CASE l.t = "Edge"  -> [link |-> EdgeLink, H |-> H]
    [] l.t = "Same"  -> [link |-> [t |-> "Uncle", rc |-> l.rc], H |-> CloneCell(H, l.rc)]
    [] l.t = "Uncle" -> [link |-> [t |-> "Uncle", rc |-> l.rc], H |-> CloneCell(H, l.rc)]
    [] l.t = "None"  -> [link |-> NoneLink, H |-> H]

\* Link::focus
LinkFocus(l, H) ==
  CASE l.t = "Edge" -> [cell |-> [kind |-> "Empty", buffer |-> 0, next |-> EdgeLink], H |-> H]
    [] l.t = "Same" ->
         IF H.c[l.rc].rc = 1
         THEN [cell |-> H.c[l.rc].cell,
               H |-> [H EXCEPT !.c = Trim([H.c EXCEPT ![l.rc] = FreeCell])]]
         ELSE [cell |-> H.c[l.rc].cell,
               H |-> Panic(H, "This should've been the only Rc to the cell")]
    [] l.t = "Uncle" ->
         LET src == H.c[l.rc].cell
             u   == to_uncle(src.next, H)
             Hb  == IF src.kind = "Empty" THEN u.H ELSE CloneBuf(u.H, src.buffer)
             x   == [kind   |-> IF src.kind = "Empty" THEN "Empty" ELSE "Ghost",
                     buffer |-> src.buffer,
                     next   |-> u.link]
         IN  [cell |-> x, H |-> DropLink(l, Hb)]
    [] l.t = "None" ->
         [cell |-> [kind |-> "Empty", buffer |-> 0, next |-> NoneLink],
          H |-> Panic(H, "This shouldn't have been None")]

\* Cell::extract_next: the link taken out, None left in its place
extract_next(c) == [self |-> [c EXCEPT !.next = NoneLink], nxt |-> c.next]

\* Cell::set_next: the replaced link is dropped
set_next(c, next, H) == [self |-> [c EXCEPT !.next = next], H |-> DropLink(c.next, H)]

\* Cell::focus: self becomes its next cell, the original is returned
CellFocus(c, H) ==
  LET e == extract_next(c)
      f == LinkFocus(e.nxt, H)
  IN  [self |-> f.cell, ret |-> e.self, H |-> f.H]

\* Cell::shift as it would be without its set_next: new takes the place of self
\* with the link it came with, the displaced cell is let go
CellShift_unlinked(c, new, H) == [self |-> new, H |-> DropCell(c, H)]

\* Cell::shift: new takes the place of self and links to the displaced cell
CellShift(c, new, H) ==
  LET a == NewCell(H, c)
      s == set_next(new, [t |-> "Same", rc |-> a.id], a.H)
  IN  [self |-> s.self, H |-> s.H]

\* Cell::read
CellRead(c, H) == IF c.kind = "Empty" THEN None ELSE H.b[c.buffer].buf

\* Cell::write as it would be if a Ghost wrote through its shared buffer
CellWrite_inplace(c, buff, H) ==
  CASE c.kind \in {"Full", "Ghost"} ->
         [self |-> [c EXCEPT !.kind = "Full"], H |-> [H EXCEPT !.b[c.buffer].buf = buff]]
    [] c.kind = "Empty" ->
         LET n == NewBuf(H, buff)
         IN  [self |-> [kind |-> "Full", buffer |-> n.id, next |-> c.next], H |-> n.H]

\* Cell::write
CellWrite(c, buff, H) ==
  CASE c.kind = "Full" ->
         [self |-> c, H |-> [H EXCEPT !.b[c.buffer].buf = buff]]
    [] c.kind = "Ghost" ->
         LET n == NewBuf(H, buff)
         IN  [self |-> [kind |-> "Full", buffer |-> n.id, next |-> c.next],
              H |-> DropBuf(n.H, c.buffer)]
    [] c.kind = "Empty" ->
         LET n == NewBuf(H, buff)
         IN  [self |-> [kind |-> "Full", buffer |-> n.id, next |-> c.next], H |-> n.H]

\* the loop of Cell::make_refs: num references pushed
RECURSIVE make_refs_loop(_, _, _)
make_refs_loop(c, num, H) ==
  IF num = 0 THEN [v |-> << >>, H |-> H]
  ELSE LET r  == make_refs_loop(c, num - 1, H)
           u  == to_uncle(c.next, r.H)
           Hb == IF c.kind = "Empty" THEN u.H ELSE CloneBuf(u.H, c.buffer)
           g  == [kind   |-> IF c.kind = "Empty" THEN "Empty" ELSE "Ghost",
                  buffer |-> c.buffer,
                  next   |-> u.link]
       IN  [v |-> Append(r.v, g), H |-> Hb]

\* Cell::make_refs: the cell itself is consumed
make_refs(c, num, H) ==
  LET r == make_refs_loop(c, num, H)
  IN  [v |-> r.v, H |-> DropCell(c, r.H)]

\* full_cell(buffer, None)
full_cell_edge(buffer, H) ==
  LET n == NewBuf(H, buffer)
  IN  [cell |-> [kind |-> "Full", buffer |-> n.id, next |-> EdgeLink], H |-> n.H]

\* full_cell(buffer, Some(next))
full_cell(buffer, next, H) ==
  LET n == NewBuf(H, buffer)
      a == NewCell(n.H, next)
  IN  [cell |-> [kind |-> "Full", buffer |-> n.id, next |-> [t |-> "Same", rc |-> a.id]],
       H |-> a.H]

\* empty_cell
empty_cell == [kind |-> "Empty", buffer |-> 0, next |-> EdgeLink]

\* the loop of cells_from_slice, for i in (0..full_cells).rev()
RECURSIVE cells_from_slice_loop(_, _, _, _)
cells_from_slice_loop(i, head, buff, H) ==
  IF i < 0 THEN [cell |-> head, H |-> H]
  ELSE LET r == full_cell(SubSeq(buff, i * W + 1, (i + 1) * W), head, H)
       IN  cells_from_slice_loop(i - 1, r.cell, buff, r.H)

\* cells_from_slice
cells_from_slice(buff, empty, H) ==
  LET full_cells == Len(buff) \div W
      last_rem   == Len(buff) % W
      buff_tmp   == [k \in 1..W |-> IF k <= last_rem THEN buff[W * full_cells + k] ELSE empty]
      head       == full_cell_edge(buff_tmp, H)
  IN  cells_from_slice_loop(full_cells - 1, head.cell, buff, head.H)

\* ------------------------------------------------------------------ cache.rs
\* Cache::new
CacheNew(current, left) ==
  [buffer_l |-> left, buffer_r |-> current, cursor |-> 0,
   current |-> "Right", dirty |-> <<FALSE, FALSE>>]

\* Cache::read (cursor counts from 0, a TLA+ sequence from 1)
CacheRead(c) ==
  IF c.current = "Left" THEN c.buffer_l[c.cursor + 1] ELSE c.buffer_r[c.cursor + 1]

\* Cache::write as it would be if it never set a dirty flag
CacheWrite_quiet(c, symb) ==
  IF c.current = "Left"
  THEN [c EXCEPT !.buffer_l[c.cursor + 1] = symb]
  ELSE [c EXCEPT !.buffer_r[c.cursor + 1] = symb]

\* Cache::write (the returned old symbol is not used by any caller)
CacheWrite(c, symb) ==
  IF c.current = "Left"
  THEN LET old == c.buffer_l[c.cursor + 1]
       IN  [c EXCEPT !.buffer_l[c.cursor + 1] = symb,
                     !.dirty[1] = IF old # symb THEN TRUE ELSE @]
  ELSE LET old == c.buffer_r[c.cursor + 1]
       IN  [c EXCEPT !.buffer_r[c.cursor + 1] = symb,
                     !.dirty[2] = IF old # symb THEN TRUE ELSE @]

\* Cache::shift as it would be if a switch to the left half set the cursor to 0
CacheShift_front(c, dir) ==
  CASE dir = "Left" ->
         IF c.cursor > 0
         THEN [cache |-> [c EXCEPT !.cursor = @ - 1], ret |-> "Stay", side |-> "-"]
         ELSE IF c.current = "Right"
         THEN [cache |-> [c EXCEPT !.cursor = 0, !.current = "Left"],
               ret |-> "InCache", side |-> "Left"]
         ELSE [cache |-> c, ret |-> "OutCacheFail", side |-> "Left"]
    [] dir = "Right" ->
         IF c.cursor < W - 1
         THEN [cache |-> [c EXCEPT !.cursor = @ + 1], ret |-> "Stay", side |-> "-"]
         ELSE IF c.current = "Left"
         THEN [cache |-> [c EXCEPT !.cursor = 0, !.current = "Right"],
               ret |-> "InCache", side |-> "Right"]
         ELSE [cache |-> c, ret |-> "OutCacheFail", side |-> "Right"]
    [] dir = "Stay" -> [cache |-> c, ret |-> "Stay", side |-> "-"]

\* Cache::shift
CacheShift(c, dir) ==
  CASE dir = "Left" ->
         IF c.cursor > 0
         THEN [cache |-> [c EXCEPT !.cursor = @ - 1], ret |-> "Stay", side |-> "-"]
         ELSE IF c.current = "Right"
         THEN [cache |-> [c EXCEPT !.cursor = W - 1, !.current = "Left"],
               ret |-> "InCache", side |-> "Left"]
         ELSE [cache |-> c, ret |-> "OutCacheFail", side |-> "Left"]
    [] dir = "Right" ->
         IF c.cursor < W - 1
         THEN [cache |-> [c EXCEPT !.cursor = @ + 1], ret |-> "Stay", side |-> "-"]
         ELSE IF c.current = "Left"
         THEN [cache |-> [c EXCEPT !.cursor = 0, !.current = "Right"],
               ret |-> "InCache", side |-> "Right"]
         ELSE [cache |-> c, ret |-> "OutCacheFail", side |-> "Right"]
    [] dir = "Stay" -> [cache |-> c, ret |-> "Stay", side |-> "-"]

\* Cache::shift_flush as it would be if the evicted half were never handed back
shift_flush_lost(c, dir, new_content, H) ==
  CASE dir = "Left" ->
         [cache |-> [c EXCEPT !.current = "Left", !.cursor = W - 1,
                              !.buffer_r = c.buffer_l, !.buffer_l = new_content,
                              !.dirty = <<FALSE, c.dirty[1]>>],
          out |-> None, H |-> H]
    [] dir = "Right" ->
         [cache |-> [c EXCEPT !.current = "Right", !.cursor = 0,
                              !.buffer_l = c.buffer_r, !.buffer_r = new_content,
                              !.dirty = <<c.dirty[2], FALSE>>],
          out |-> None, H |-> H]
    [] dir = "Stay" ->
         [cache |-> c, out |-> None, H |-> Panic(H, "Erroneous call to shift_flush")]

\* Cache::shift_flush as it would be if the dirty flags stayed with the slots in
\* place of sliding with the buffers
shift_flush_noslide(c, dir, new_content, H) ==
  CASE dir = "Left" ->
         IF ~(c.cursor = 0 /\ c.current = "Left")
         THEN [cache |-> c, out |-> None, H |-> Panic(H, "Shouldn't have called shift_flush")]
         ELSE [cache |-> [c EXCEPT !.current = "Left", !.cursor = W - 1,
                                   !.buffer_r = c.buffer_l, !.buffer_l = new_content],
               out |-> IF c.dirty[2] THEN c.buffer_r ELSE None,
               H |-> H]
    [] dir = "Right" ->
         IF ~(c.cursor = W - 1 /\ c.current = "Right")
         THEN [cache |-> c, out |-> None, H |-> Panic(H, "Shouldn't have called shift_flush")]
         ELSE [cache |-> [c EXCEPT !.current = "Right", !.cursor = 0,
                                   !.buffer_l = c.buffer_r, !.buffer_r = new_content],
               out |-> IF c.dirty[1] THEN c.buffer_l ELSE None,
               H |-> H]
    [] dir = "Stay" ->
         [cache |-> c, out |-> None, H |-> Panic(H, "Erroneous call to shift_flush")]

\* Cache::shift_flush
shift_flush(c, dir, new_content, H) ==
  CASE dir = "Left" ->
         IF ~(c.cursor = 0 /\ c.current = "Left")
         THEN [cache |-> c, out |-> None, H |-> Panic(H, "Shouldn't have called shift_flush")]
         ELSE [cache |-> [c EXCEPT !.current = "Left", !.cursor = W - 1,
                                   !.buffer_r = c.buffer_l, !.buffer_l = new_content,
                                   !.dirty = <<FALSE, c.dirty[1]>>],
               out |-> IF c.dirty[2] THEN c.buffer_r ELSE None,
               H |-> H]
    [] dir = "Right" ->
         IF ~(c.cursor = W - 1 /\ c.current = "Right")
         THEN [cache |-> c, out |-> None, H |-> Panic(H, "Shouldn't have called shift_flush")]
         ELSE [cache |-> [c EXCEPT !.current = "Right", !.cursor = 0,
                                   !.buffer_l = c.buffer_r, !.buffer_r = new_content,
                                   !.dirty = <<c.dirty[2], FALSE>>],
               out |-> IF c.dirty[1] THEN c.buffer_l ELSE None,
               H |-> H]
    [] dir = "Stay" ->
         [cache |-> c, out |-> None, H |-> Panic(H, "Erroneous call to shift_flush")]

\* Cache::flush_current
flush_current(c) ==
  IF c.current = "Left"
  THEN (IF c.dirty[1] THEN c.buffer_l ELSE None)
  ELSE (IF c.dirty[2] THEN c.buffer_r ELSE None)

\* Cache::flush_other (both arms return buffer_r, as the source does)
flush_other(c) ==
  IF c.current = "Left"
  THEN [side |-> "Right", out |-> IF c.dirty[2] THEN c.buffer_r ELSE None]
  ELSE [side |-> "Left",  out |-> IF c.dirty[1] THEN c.buffer_r ELSE None]

\* ------------------------------------------------------------------ tape/mod.rs
\* [empty; W]
empty_buff(empty) == [k \in 1..W |-> empty]

\* Tape::create
TapeCreate(empty, init, H) ==
  LET curr == cells_from_slice(init, empty, H)
      f    == CellFocus(curr.cell, curr.H)
      hd   == CellRead(f.ret, f.H)
  IN  [tape |-> [cache |-> CacheNew(IF hd # None THEN hd ELSE empty_buff(empty),
                                    empty_buff(empty)),
                 empty |-> empty,
                 left  |-> empty_cell,
                 right |-> f.self,
                 focus |-> f.ret],
       H |-> f.H]

\* Tape::read
TapeRead(t) == CacheRead(t.cache)

\* Tape::write
TapeWrite(t, symb) == [t EXCEPT !.cache = CacheWrite(t.cache, symb)]

\* Tape::tape_shift as it would be if a move to the left let go of the cell that
\* was in focus in place of linking it into the right side
tape_shift_forget(t, direction, H) ==
  IF direction = "Left"
  THEN LET f == CellFocus(t.left, H)
       IN  [tape |-> [t EXCEPT !.left = f.self, !.focus = f.ret], H |-> f.H]
  ELSE LET f == CellFocus(t.right, H)
           s == CellShift(t.left, t.focus, f.H)
       IN  [tape |-> [t EXCEPT !.right = f.self, !.focus = f.ret, !.left = s.self],
            H |-> s.H]

\* Tape::tape_shift
tape_shift(t, direction, H) ==
  IF direction = "Left"
  THEN LET f == CellFocus(t.left, H)
           s == CellShift(t.right, t.focus, f.H)
       IN  [tape |-> [t EXCEPT !.left = f.self, !.focus = f.ret, !.right = s.self],
            H |-> s.H]
  ELSE LET f == CellFocus(t.right, H)
           s == CellShift(t.left, t.focus, f.H)
       IN  [tape |-> [t EXCEPT !.right = f.self, !.focus = f.ret, !.left = s.self],
            H |-> s.H]

\* Tape::shift
TapeShift(t, direction, H) ==
  LET res == CacheShift(t.cache, direction)
  IN  CASE res.ret = "Stay" -> [tape |-> [t EXCEPT !.cache = res.cache], H |-> H]
        [] res.ret = "InCache" -> tape_shift([t EXCEPT !.cache = res.cache], res.side, H)
        [] res.ret = "OutCacheFail" ->
             IF res.side = "Left"
             THEN LET rd   == CellRead(t.left, H)
                      buff == IF rd # None THEN rd ELSE empty_buff(t.empty)
                      fl   == shift_flush(res.cache, direction, buff, H)
                      wr   == IF fl.out # None THEN CellWrite(t.right, fl.out, fl.H)
                              ELSE [self |-> t.right, H |-> fl.H]
                  IN  tape_shift([t EXCEPT !.cache = fl.cache, !.right = wr.self],
                                 res.side, wr.H)
             ELSE LET rd   == CellRead(t.right, H)
                      buff == IF rd # None THEN rd ELSE empty_buff(t.empty)
                      fl   == shift_flush(res.cache, direction, buff, H)
                      wr   == IF fl.out # None THEN CellWrite(t.left, fl.out, fl.H)
                              ELSE [self |-> t.left, H |-> fl.H]
                  IN  tape_shift([t EXCEPT !.cache = fl.cache, !.left = wr.self],
                                 res.side, wr.H)

\* Tape::split as it would be if the children's dirty flags were cleared after
\* the flush
TapeSplit_clean(t, branches, H) ==
  LET fc  == flush_current(t.cache)
      w1  == IF fc # None THEN CellWrite(t.focus, fc, H) ELSE [self |-> t.focus, H |-> H]
      fo  == flush_other(t.cache)
      w2  == IF fo.out # None
             THEN CellWrite(IF fo.side = "Left" THEN t.left ELSE t.right, fo.out, w1.H)
             ELSE [self |-> IF fo.side = "Left" THEN t.left ELSE t.right, H |-> w1.H]
      lft == IF fo.side = "Left" THEN w2.self ELSE t.left
      rgt == IF fo.side = "Right" THEN w2.self ELSE t.right
      foc_refs   == make_refs(w1.self, branches, w2.H)
      left_refs  == make_refs(lft, branches, foc_refs.H)
      right_refs == make_refs(rgt, branches, left_refs.H)
  IN  [tapes |-> [k \in 1..branches |->
                    [cache |-> [t.cache EXCEPT !.dirty = <<FALSE, FALSE>>],
                     empty |-> t.empty,
                     focus |-> foc_refs.v[branches + 1 - k],
                     right |-> right_refs.v[branches + 1 - k],
                     left  |-> left_refs.v[branches + 1 - k]]],
       H |-> right_refs.H]

\* Tape::split
TapeSplit(t, branches, H) ==
  LET fc  == flush_current(t.cache)
      w1  == IF fc # None THEN CellWrite(t.focus, fc, H) ELSE [self |-> t.focus, H |-> H]
      fo  == flush_other(t.cache)
      w2  == IF fo.out # None
             THEN CellWrite(IF fo.side = "Left" THEN t.left ELSE t.right, fo.out, w1.H)
             ELSE [self |-> IF fo.side = "Left" THEN t.left ELSE t.right, H |-> w1.H]
      lft == IF fo.side = "Left" THEN w2.self ELSE t.left
      rgt == IF fo.side = "Right" THEN w2.self ELSE t.right
      foc_refs   == make_refs(w1.self, branches, w2.H)
      left_refs  == make_refs(lft, branches, foc_refs.H)
      right_refs == make_refs(rgt, branches, left_refs.H)
  IN  [tapes |-> [k \in 1..branches |->
                    [cache |-> t.cache,
                     empty |-> t.empty,
                     focus |-> foc_refs.v[branches + 1 - k],
                     right |-> right_refs.v[branches + 1 - k],
                     left  |-> left_refs.v[branches + 1 - k]]],
       H |-> right_refs.H]

\* drop of a Tape: its three cells, in the order the fields are declared
TapeDrop(t, H) == DropCell(t.right, DropCell(t.left, DropCell(t.focus, H)))

\* ------------------------------------------------------------------ rules/mod.rs
\* a BTreeMap entry set to a value
MapPut(f, k, v) == [x \in (DOMAIN f) \cup {k} |-> IF x = k THEN v ELSE f[x]]

Range(s) == {s[i] : i \in DOMAIN s}

\* struct Transition
Transition(state, symb, dir) == [state |-> state, symb |-> symb, dir |-> dir]

\* enum Output: None, Simple(t), Multi(v)
OutputNone == [kind |-> "None", trs |-> << >>]

Simple(t) == [kind |-> "Simple", trs |-> <<t>>]

Multi(v) == [kind |-> "Multi", trs |-> v]

\* RuleStore::new
RuleStoreNew ==
  [rules |-> << >>, states_backtrace |-> << >>, states_dist |-> << >>, fin_s |-> {}]

\* RuleStore::add_rule as it would be if the second rule of a key were put before
\* the first
add_rule_newfirst(s, state_in, symb_in, symb_out, state_out, dir) ==
  LET new_t == Transition(state_out, symb_out, dir)
      key   == [state |-> state_in, symb |-> symb_in]
      entry == IF key \in DOMAIN s.rules
               THEN LET e == s.rules[key]
                    IN  CASE e.kind = "None"   -> Simple(new_t)
                          [] e.kind = "Simple" -> Multi(<<new_t, e.trs[1]>>)
                          [] e.kind = "Multi"  -> Multi(Append(e.trs, new_t))
               ELSE Simple(new_t)
      back  == IF state_out \in DOMAIN s.states_backtrace
               THEN Append(s.states_backtrace[state_out], state_in)
               ELSE <<state_in>>
  IN  [s EXCEPT !.rules = MapPut(@, key, entry),
                !.states_backtrace = MapPut(@, state_out, back)]

\* RuleStore::add_rule
add_rule(s, state_in, symb_in, symb_out, state_out, dir) ==
  LET new_t == Transition(state_out, symb_out, dir)
      key   == [state |-> state_in, symb |-> symb_in]
      entry == IF key \in DOMAIN s.rules
               THEN LET e == s.rules[key]
                    IN  CASE e.kind = "None"   -> Simple(new_t)
                          [] e.kind = "Simple" -> Multi(<<e.trs[1], new_t>>)
                          [] e.kind = "Multi"  -> Multi(Append(e.trs, new_t))
               ELSE Simple(new_t)
      back  == IF state_out \in DOMAIN s.states_backtrace
               THEN Append(s.states_backtrace[state_out], state_in)
               ELSE <<state_in>>
  IN  [s EXCEPT !.rules = MapPut(@, key, entry),
                !.states_backtrace = MapPut(@, state_out, back)]

\* RuleStore::get
get(s, state_in, symb_in) ==
  LET key == [state |-> state_in, symb |-> symb_in]
  IN  IF key \in DOMAIN s.rules THEN s.rules[key] ELSE OutputNone

\* RuleStore::add_final
add_final(s, final_state) == [s EXCEPT !.fin_s = @ \cup {final_state}]

\* RuleStore::is_final
is_final(s, state) == state \in s.fin_s

\* RuleStore::compute_dist, its locals before the loop: queue = fin_s, dist = 0
compute_dist_begin(s) == [queue |-> s.fin_s, dist |-> 0]

\* compute_dist with insert in place of entry(i).or_insert(dist): a state met
\* again in a later round takes the later distance
compute_dist_iter_overwrite(s, cd) ==
  LET dists  == [x \in (DOMAIN s.states_dist) \cup cd.queue |->
                   IF x \in cd.queue THEN cd.dist ELSE s.states_dist[x]]
      next_q == UNION {IF i \in DOMAIN s.states_backtrace
                       THEN Range(s.states_backtrace[i]) ELSE {} : i \in cd.queue}
  IN  [store |-> [s EXCEPT !.states_dist = dists],
       cd    |-> [queue |-> next_q, dist |-> cd.dist + 1]]

\* RuleStore::compute_dist, one round of the while loop
compute_dist_iter(s, cd) ==
  LET dists  == [x \in (DOMAIN s.states_dist) \cup cd.queue |->
                   IF x \in DOMAIN s.states_dist THEN s.states_dist[x] ELSE cd.dist]
      next_q == UNION {IF i \in DOMAIN s.states_backtrace
                       THEN Range(s.states_backtrace[i]) ELSE {} : i \in cd.queue}
  IN  [store |-> [s EXCEPT !.states_dist = dists],
       cd    |-> [queue |-> next_q, dist |-> cd.dist + 1]]

\* RuleStore::distance: states_dist.get(&state), the Option before the unwrap
distance(s, state) ==
  IF state \in DOMAIN s.states_dist
  THEN [some |-> TRUE, v |-> s.states_dist[state]]
  ELSE [some |-> FALSE, v |-> 0]

\* the message of Option::unwrap on None
UnwrapNone == "called Option::unwrap() on a None value"

\* ------------------------------------------------------------------ machine/mod.rs
\* TM::new; instr_cache is << >> for Option::None and <<t>> for Some(t)
TMNew(tape, state, rule, id, depth, dist) ==
  [depth |-> depth, idx |-> id, tape |-> tape, state |-> state,
   distance |-> dist, instr_cache |-> rule]

\* TM::step
\* TM::step as it would be if a Simple output were handed back as a split in one
TMStep_split(m, rules, H) ==
  IF m.instr_cache # << >>
  THEN LET trs == m.instr_cache[1]
           d   == distance(rules, trs.state)
           wr  == TapeWrite(m.tape, trs.symb)
           sh  == TapeShift(wr, trs.dir, H)
       IN  IF ~d.some
           THEN [res |-> "Panic", trs |-> << >>, H |-> Panic(H, UnwrapNone),
                 machine |-> [m EXCEPT !.instr_cache = << >>, !.depth = @ + 1,
                                       !.state = trs.state]]
           ELSE [res |-> IF is_final(rules, trs.state) THEN "Recognized" ELSE "Success",
                 trs |-> << >>, H |-> sh.H,
                 machine |-> [m EXCEPT !.instr_cache = << >>, !.depth = @ + 1,
                                       !.state = trs.state, !.distance = d.v,
                                       !.tape = sh.tape]]
  ELSE LET rule == get(rules, m.state, TapeRead(m.tape))
       IN  IF rule.kind = "None"
           THEN [res |-> "Failure", trs |-> << >>, H |-> H, machine |-> m]
           ELSE [res |-> "Split", trs |-> rule.trs, H |-> H, machine |-> m]

RECURSIVE TMStep(_, _, _)
TMStep(m, rules, H) ==
  IF m.instr_cache # << >>
  THEN LET trs == m.instr_cache[1]
           d   == distance(rules, trs.state)
           wr  == TapeWrite(m.tape, trs.symb)
           sh  == TapeShift(wr, trs.dir, H)
       IN  IF ~d.some
           THEN [res |-> "Panic", trs |-> << >>, H |-> Panic(H, UnwrapNone),
                 machine |-> [m EXCEPT !.instr_cache = << >>, !.depth = @ + 1,
                                       !.state = trs.state]]
           ELSE [res |-> IF is_final(rules, trs.state) THEN "Recognized" ELSE "Success",
                 trs |-> << >>, H |-> sh.H,
                 machine |-> [m EXCEPT !.instr_cache = << >>, !.depth = @ + 1,
                                       !.state = trs.state, !.distance = d.v,
                                       !.tape = sh.tape]]
  ELSE LET rule == get(rules, m.state, TapeRead(m.tape))
       IN  CASE rule.kind = "None" ->
                  [res |-> "Failure", trs |-> << >>, H |-> H, machine |-> m]
             [] rule.kind = "Simple" ->
                  TMStep([m EXCEPT !.instr_cache = <<rule.trs[1]>>], rules, H)
             [] rule.kind = "Multi" ->
                  [res |-> "Split", trs |-> rule.trs, H |-> H, machine |-> m]

\* TM::split as it would be if it counted the split as a step of the branch
TMSplit_deeper(m, num, H) ==
  IF m.instr_cache # << >>
  THEN [state |-> m.state, depth |-> m.depth, tapes |-> << >>,
        H |-> Panic(H, "Cache should always be empty if splitting the machine")]
  ELSE LET sp == TapeSplit(m.tape, num, H)
       IN  [state |-> m.state, depth |-> m.depth + 1, tapes |-> sp.tapes, H |-> sp.H]

\* TM::split
TMSplit(m, num, H) ==
  IF m.instr_cache # << >>
  THEN [state |-> m.state, depth |-> m.depth, tapes |-> << >>,
        H |-> Panic(H, "Cache should always be empty if splitting the machine")]
  ELSE LET sp == TapeSplit(m.tape, num, H)
       IN  [state |-> m.state, depth |-> m.depth, tapes |-> sp.tapes, H |-> sp.H]

\* impl Ord for TM as it would be if the larger depth + distance ranked higher
cmp_furthest(self, other) ==
  LET min_s  == self.distance + self.depth
      min_o  == other.distance + other.depth
      s_some == self.instr_cache # << >>
      o_some == other.instr_cache # << >>
  IN  CASE s_some /\ o_some -> "Equal"
        [] s_some /\ ~o_some -> "Greater"
        [] ~s_some /\ o_some -> "Less"
        [] ~s_some /\ ~o_some /\ min_s = min_o -> "Equal"
        [] ~s_some /\ ~o_some /\ min_s < min_o -> "Less"
        [] ~s_some /\ ~o_some /\ min_s > min_o -> "Greater"

\* impl Ord for TM as it would be if a pending transition gave no precedence:
\* the branches are ordered by depth + distance alone
cmp_nopending(self, other) ==
  LET min_s == self.distance + self.depth
      min_o == other.distance + other.depth
  IN  CASE min_s = min_o -> "Equal"
        [] min_s < min_o -> "Greater"
        [] min_s > min_o -> "Less"

\* impl Ord for TM
cmp(self, other) ==
  LET min_s  == self.distance + self.depth
      min_o  == other.distance + other.depth
      s_some == self.instr_cache # << >>
      o_some == other.instr_cache # << >>
  IN  CASE s_some /\ o_some -> "Equal"
        [] s_some /\ ~o_some -> "Greater"
        [] ~s_some /\ o_some -> "Less"
        [] ~s_some /\ ~o_some /\ min_s = min_o -> "Equal"
        [] ~s_some /\ ~o_some /\ min_s < min_o -> "Greater"
        [] ~s_some /\ ~o_some /\ min_s > min_o -> "Less"

\* MachineStore::push
push(heap_, machine) == Append(heap_, machine)

\* MachineStore::pop: BinaryHeap::pop hands out an element no other element is
\* greater than; which one, among elements that compare Equal, depends on the
\* heap's layout.  The positions pop may take:
pop(heap_) == {i \in 1..Len(heap_) : \A j \in 1..Len(heap_) : cmp(heap_[i], heap_[j]) # "Less"}

Remove(s, i) == SubSeq(s, 1, i - 1) \o SubSeq(s, i + 1, Len(s))

\* enum StepResult
StepResult(t, machine, new) == [t |-> t, machine |-> machine, new |-> new]

\* NDTM::new
NDTMNew(tape, rules, max, H) ==
  LET d == distance(rules, 0)
  IN  IF ~d.some
      THEN [ndtm |-> [machines |-> << >>, last_idx |-> 0,
                      some_undecided |-> FALSE, max_step |-> max],
            H |-> Panic(H, UnwrapNone)]
      ELSE [ndtm |-> [machines |-> push(<< >>, TMNew(tape, 0, << >>, 0, 0, d.v)),
                      last_idx |-> 0, some_undecided |-> FALSE, max_step |-> max],
            H |-> H]

\* the loop of the Split arm as it would be if last_idx were incremented after
\* the child is made: the child takes the identifier assigned last
RECURSIVE split_loop_postinc(_, _, _, _, _, _, _, _)
split_loop_postinc(nd, split, trs, ret, state, depth, dist, H) ==
  IF split = << >>
  THEN [ndtm |-> nd, ret |-> ret,
        H |-> IF trs # << >> THEN Panic(H, "There should have been enough tapes") ELSE H]
  ELSE LET idx == nd.last_idx
       IN  IF trs = << >>
           THEN [ndtm |-> [nd EXCEPT !.last_idx = idx + 1], ret |-> ret,
                 H |-> Panic(H, "Not enough rules for the split, impossible")]
           ELSE LET trans == trs[Len(trs)]
                    tm    == TMNew(Head(split), state, <<trans>>, idx, depth, dist)
                IN  split_loop_postinc([nd EXCEPT !.last_idx = idx + 1, !.machines = push(@, tm)],
                                       Tail(split), SubSeq(trs, 1, Len(trs) - 1),
                                       Append(ret, idx), state, depth, dist, H)

\* NDTM::step, the loop of the Split arm over the tapes of the split: each tape
\* takes the next identifier and trs.pop(), the last transition not yet taken
RECURSIVE split_loop(_, _, _, _, _, _, _, _)
split_loop(nd, split, trs, ret, state, depth, dist, H) ==
  IF split = << >>
  THEN [ndtm |-> nd, ret |-> ret,
        H |-> IF trs # << >> THEN Panic(H, "There should have been enough tapes") ELSE H]
  ELSE LET idx == nd.last_idx + 1
       IN  IF trs = << >>
           THEN [ndtm |-> [nd EXCEPT !.last_idx = idx], ret |-> ret,
                 H |-> Panic(H, "Not enough rules for the split, impossible")]
           ELSE LET trans == trs[Len(trs)]
                    tm    == TMNew(Head(split), state, <<trans>>, idx, depth, dist)
                IN  split_loop([nd EXCEPT !.last_idx = idx, !.machines = push(@, tm)],
                               Tail(split), SubSeq(trs, 1, Len(trs) - 1),
                               Append(ret, idx), state, depth, dist, H)

\* NDTM::step, the Split arm once machine.split(trs.len()) has handed back sp
NDTMStepSplit(rest, rules, id, trs, sp) ==
  IF sp.H.p # ""
  THEN [ndtm |-> rest, res |-> StepResult("Panic", id, << >>), H |-> sp.H]
  ELSE IF ~distance(rules, sp.state).some
  THEN [ndtm |-> rest, res |-> StepResult("Panic", id, << >>), H |-> Panic(sp.H, UnwrapNone)]
  ELSE LET lp == split_loop(rest, sp.tapes, trs, << >>, sp.state, sp.depth,
                            distance(rules, sp.state).v, sp.H)
       IN  [ndtm |-> lp.ndtm,
            res  |-> StepResult(IF lp.H.p # "" THEN "Panic" ELSE "Split", id, lp.ret),
            H    |-> lp.H]

\* NDTM::step, the match on the result of machine.step(self.rules)
NDTMStepMatch(rest, rules, id, step_res) ==
  CASE step_res.res = "Panic" ->
         [ndtm |-> rest, res |-> StepResult("Panic", id, << >>), H |-> step_res.H]
    [] step_res.res = "Success" ->
         [ndtm |-> [rest EXCEPT !.machines = push(@, step_res.machine)],
          res  |-> StepResult("DetStep", id, << >>),
          H    |-> step_res.H]
    [] step_res.res = "Failure" ->
         [ndtm |-> rest, res |-> StepResult("BranchFail", id, << >>),
          H    |-> TapeDrop(step_res.machine.tape, step_res.H)]
    [] step_res.res = "Recognized" ->
         [ndtm |-> rest, res |-> StepResult("Success", id, << >>),
          H    |-> TapeDrop(step_res.machine.tape, step_res.H)]
    [] step_res.res = "Split" ->
         NDTMStepSplit(rest, rules, id, step_res.trs,
                       TMSplit(step_res.machine, Len(step_res.trs), step_res.H))

\* NDTM::step as it would be if the budget test were depth > max_step
NDTMStep_gt(nd, rules, i, H) ==
  IF i = 0
  THEN [ndtm |-> nd, res |-> StepResult("FailAll", 0, << >>), H |-> H]
  ELSE IF nd.machines[i].depth > nd.max_step
  THEN [ndtm |-> [nd EXCEPT !.machines = Remove(@, i), !.some_undecided = TRUE],
        res  |-> StepResult("Undecided", nd.machines[i].idx, << >>),
        H    |-> TapeDrop(nd.machines[i].tape, H)]
  ELSE NDTMStepMatch([nd EXCEPT !.machines = Remove(@, i)], rules, nd.machines[i].idx,
                     TMStep(nd.machines[i], rules, H))

\* NDTM::step; i is the position pop takes, 0 when the queue is empty.  A step
\* that panics hands back "Panic" in place of a StepResult.
NDTMStep(nd, rules, i, H) ==
  IF i = 0
  THEN [ndtm |-> nd, res |-> StepResult("FailAll", 0, << >>), H |-> H]
  ELSE IF nd.machines[i].depth >= nd.max_step
  THEN [ndtm |-> [nd EXCEPT !.machines = Remove(@, i), !.some_undecided = TRUE],
        res  |-> StepResult("Undecided", nd.machines[i].idx, << >>),
        H    |-> TapeDrop(nd.machines[i].tape, H)]
  ELSE NDTMStepMatch([nd EXCEPT !.machines = Remove(@, i)], rules, nd.machines[i].idx,
                     TMStep(nd.machines[i], rules, H))

\* the position NDTM::step pops: any of pop's, 0 for an empty queue
PopChoices(nd) == IF nd.machines = << >> THEN {0} ELSE pop(nd.machines)

\* main's match on the last result of fastforward
Decision(res, some_undecided) ==
  CASE res.t = "Success" -> "Success"
    [] res.t = "FailAll" -> IF some_undecided THEN "Undecided" ELSE "Failure"
    [] OTHER -> "panic"

\* ------------------------------------------------------------------ tape driver
\* The tape engine on its own: a tape created from a slice, then written, shifted
\* and split in any order.  ideal is the reference the tapes are compared with:
\* per tape, a bi-infinite array and a cursor.

\* b'_' of bin.rs, the blank symbol, as symbol code 0
Blank == 0

Symbols == {Blank, Blank + 1, Blank + 2}

\* the symbols the tape driver writes
WriteSyms == {Blank, Blank + 1}

\* bound: the number of tape operations of one behaviour
MaxOps == 7

\* bound: the length of the slice a tape is created from
MaxInit == 4

\* bound: the number of tapes a behaviour of the tape driver may hold
MaxTapes == 2

\* bound: the number of writes of one behaviour of the tape driver
MaxWrites == 2

\* the slices tapes are created from: the prefixes of 1 2 1 2 ...
InitSlice(n) == [k \in 1..n |-> Blank + 1 + ((k + 1) % 2)]

\* A behaviour of the driver is either "free" (every tape is operated on, MaxOps
\* operations in all) or "lead" (after a split only the tape in slot 1 is operated
\* on, the other children are read; two more operations).
LeadOps == MaxOps + 2

\* the positions a cursor can visit
PosDom == (0 - LeadOps)..LeadOps

VARIABLES heap, tapes, ideal, nops, nwrites, mode, lastOp,
          pc, store, cd, input, ndtm, ff, vec, last, verdict

tvars == <<heap, tapes, ideal, nops, nwrites, mode, lastOp>>

svars == <<pc, store, cd, input, ndtm, ff, vec, last, verdict>>

vars == <<heap, tapes, ideal, nops, nwrites, mode, lastOp,
          pc, store, cd, input, ndtm, ff, vec, last, verdict>>

\* the scheduler before RuleStore::new, with nothing built
SchedIdle ==
  /\ store = RuleStoreNew
  /\ cd = [queue |-> {}, dist |-> 0]
  /\ input = << >>
  /\ ndtm = [machines |-> << >>, last_idx |-> 0, some_undecided |-> FALSE, max_step |-> 0]
  /\ ff = [steps |-> << >>, count |-> 0]
  /\ vec = << >>
  /\ last = [op |-> "none", i |-> 0, before |-> << >>, trs |-> << >>, multi |-> FALSE]
  /\ verdict = ""

IdealCreate(init) ==
  [arr |-> [p \in PosDom |-> IF 0 <= p /\ p < Len(init) THEN init[p + 1] ELSE Blank],
   pos |-> 0, gen |-> 0, init |-> init]

IdealRead(id) == id.arr[id.pos]

Delta(dir) == CASE dir = "Left" -> 0 - 1 [] dir = "Right" -> 1 [] dir = "Stay" -> 0

\* the driver's budget for one more operation on tape i
MayAct(i) ==
  /\ heap.p = ""
  /\ IF mode = "free" THEN nops < MaxOps ELSE i = 1 /\ nops < LeadOps

TInit ==
  \E n \in 0..MaxInit, m \in {"free", "lead"} :
    LET r == TapeCreate(Blank, InitSlice(n), EmptyHeap)
    IN  /\ heap = r.H
        /\ tapes = <<r.tape>>
        /\ ideal = <<IdealCreate(InitSlice(n))>>
        /\ nops = 0
        /\ nwrites = 0
        /\ mode = m
        /\ lastOp = [op |-> "create", who |-> 1, kids |-> {}, dir |-> "-"]
        /\ pc = "tape"
        /\ SchedIdle

\* tape.write(symb)
TWrite(i, symb) ==
  /\ MayAct(i) /\ nwrites < MaxWrites
  /\ tapes' = [tapes EXCEPT ![i] = TapeWrite(@, symb)]
  /\ ideal' = [ideal EXCEPT ![i].arr[ideal[i].pos] = symb]
  /\ heap' = heap
  /\ nops' = nops + 1
  /\ nwrites' = nwrites + 1
  /\ lastOp' = [op |-> "write", who |-> i, kids |-> {}, dir |-> "-"]
  /\ UNCHANGED <<mode, svars>>

\* tape.shift(dir); shift(Stay) is not counted as an operation
TShift(i, dir) ==
  /\ MayAct(i)
  /\ LET r == TapeShift(tapes[i], dir, heap)
     IN  /\ tapes' = [tapes EXCEPT ![i] = r.tape]
         /\ heap' = r.H
  /\ ideal' = [ideal EXCEPT ![i].pos = @ + Delta(dir)]
  /\ nops' = IF dir = "Stay" THEN nops ELSE nops + 1
  /\ lastOp' = [op |-> "shift", who |-> i, kids |-> {}, dir |-> dir]
  /\ UNCHANGED <<nwrites, mode, svars>>

\* tape.split(n): the tape is consumed, child 1 takes its slot
TSplit(i, n) ==
  /\ MayAct(i)
  /\ Len(tapes) + n - 1 <= MaxTapes
  /\ LET r == TapeSplit(tapes[i], n, heap)
     IN  /\ tapes' = [tapes EXCEPT ![i] = r.tapes[1]] \o SubSeq(r.tapes, 2, n)
         /\ heap' = r.H
  /\ ideal' = [ideal EXCEPT ![i].gen = @ + 1]
                \o [k \in 1..(n - 1) |-> [ideal[i] EXCEPT !.gen = @ + 1]]
  /\ lastOp' = [op |-> "split", who |-> i,
                kids |-> {i} \cup ((Len(tapes) + 1)..(Len(tapes) + n - 1)), dir |-> "-"]
  /\ nops' = nops + 1
  /\ UNCHANGED <<nwrites, mode, svars>>

TNext ==
  \/ \E i \in 1..Len(tapes), s \in WriteSyms : TWrite(i, s)
  \/ \E i \in 1..Len(tapes), d \in {"Left", "Right", "Stay"} : TShift(i, d)
  \/ \E i \in 1..Len(tapes), n \in 2..MaxTapes : TSplit(i, n)

SpecTape == TInit /\ [][TNext]_vars

\* ------------------------------------------------------------------ scheduler driver
\* main of bin.rs: a rule store is filled, a tape is created from an input, and
\* NDTM::new and fastforward(None) run on it; compute_dist is what a caller of
\* the library may run on the store before (main does not).

\* states are numbered 0..MaxState
MaxState == 3

\* rules added to a store
MaxRules == 4

\* length of an input
MaxInput == 1

\* step budget (max_steps)
MaxBudget == 5

\* rounds of the loop of compute_dist that are followed
MaxDist == 4

\* the limit m of fastforward(Some(m))
MaxLimit == 1

\* the steps argument of fastforward: None, Some(0), .., Some(MaxLimit)
Limits == {<< >>} \cup {<<m>> : m \in 0..MaxLimit}

States == 0..MaxState

\* the symbol a of the rule files
A == Blank + 1

\* the rule lines a rule file is made of: STATE_IN SYMBOL_IN SYMBOL_OUT DIR STATE_OUT
RuleUniverse ==
  { <<0, Blank, Blank, "Right", 0>>,
    <<0, A, A, "Right", 1>>,
    <<0, A, Blank, "Left", 2>>,
    <<1, Blank, Blank, "Stay", 2>>,
    <<2, Blank, A, "Right", 3>>,
    <<1, Blank, A, "Left", 3>> }

Inputs == UNION {[1..n -> {Blank, A}] : n \in 0..MaxInput}

\* the number of add_rule calls a store has seen
RulesAdded(s) ==
  Cardinality(UNION {{<<k, i>> : i \in 1..Len(s.rules[k].trs)} : k \in DOMAIN s.rules})

Init ==
  /\ heap = EmptyHeap
  /\ tapes = << >>
  /\ ideal = << >>
  /\ nops = 0
  /\ nwrites = 0
  /\ mode = "sched"
  /\ lastOp = [op |-> "none", who |-> 0, kids |-> {}, dir |-> "-"]
  /\ pc = "rules"
  /\ SchedIdle

\* rules.add_rule(..) for a line of the tr stage
AddRule(r) ==
  /\ pc = "rules"
  /\ RulesAdded(store) < MaxRules
  /\ store' = add_rule(store, r[1], r[2], r[3], r[5], r[4])
  /\ UNCHANGED <<tvars, pc, cd, input, ndtm, vec, last, verdict, ff>>

\* rules.add_final(..) for a line of the acc stage
AddFinal(f) ==
  /\ pc = "rules"
  /\ f \notin store.fin_s
  /\ store' = add_final(store, f)
  /\ UNCHANGED <<tvars, pc, cd, input, ndtm, vec, last, verdict, ff>>

\* rules.compute_dist() is entered
ComputeDistBegin ==
  /\ pc = "rules"
  /\ pc' = "dist"
  /\ cd' = compute_dist_begin(store)
  /\ UNCHANGED <<tvars, store, input, ndtm, vec, last, verdict, ff>>

\* one round of the while loop of compute_dist
ComputeDistIter ==
  /\ pc = "dist"
  /\ cd.queue # {}
  /\ cd.dist < MaxDist
  /\ LET r == compute_dist_iter(store, cd)
     IN  /\ store' = r.store
         /\ cd' = r.cd
  /\ UNCHANGED <<tvars, pc, input, ndtm, vec, last, verdict, ff>>

\* NDTM::new(Tape::create(b'_', slice), &rules, max_steps), on a store as main
\* leaves it or after compute_dist has returned
NewMachine(slice, max_steps) ==
  /\ pc = "rules" \/ (pc = "dist" /\ cd.queue = {})
  /\ \E t \in {TapeCreate(Blank, slice, heap)} :
       \E n \in {NDTMNew(t.tape, store, max_steps, t.H)} :
         /\ heap' = n.H
         /\ ndtm' = n.ndtm
         /\ pc' = IF n.H.p # "" THEN "panic" ELSE "built"
  /\ input' = slice
  /\ last' = [op |-> "new", i |-> 0, before |-> << >>, trs |-> << >>, multi |-> FALSE]
  /\ UNCHANGED <<tapes, ideal, nops, nwrites, mode, lastOp, store, cd, vec, verdict, ff>>

\* the queue as the scheduler orders it: per branch its identifier, depth, state,
\* distance and whether it holds a pending transition
Queued(nd) ==
  [j \in 1..Len(nd.machines) |->
     [idx |-> nd.machines[j].idx, depth |-> nd.machines[j].depth,
      state |-> nd.machines[j].state, distance |-> nd.machines[j].distance,
      pending |-> nd.machines[j].instr_cache # << >>]]

\* the step that pops position i looks a key up in the rules (the popped branch
\* is within the budget and holds no cached transition) and finds a Multi output
MetMulti(nd, rules, i) ==
  /\ i # 0
  /\ nd.machines[i].depth < nd.max_step
  /\ nd.machines[i].instr_cache = << >>
  /\ get(rules, nd.machines[i].state, TapeRead(nd.machines[i].tape)).kind = "Multi"

\* fastforward: the result r of self.step() is pushed; break on Success and on
\* FailAll (a step that panicked returns nothing)
FastforwardPush(i, r) ==
  /\ heap' = r.H
  /\ ndtm' = r.ndtm
  /\ last' = [op |-> "step", i |-> i, before |-> Queued(ndtm),
              trs |-> IF r.res.t = "Split"
                      THEN get(store, ndtm.machines[i].state,
                               TapeRead(ndtm.machines[i].tape)).trs
                      ELSE << >>,
              multi |-> last.multi \/ MetMulti(ndtm, store, i)]
  /\ IF r.H.p # ""
     THEN pc' = "panic" /\ vec' = vec
     ELSE /\ vec' = Append(vec, r.res)
          /\ pc' = IF r.res.t \in {"Success", "FailAll"} THEN "returned" ELSE "run"

\* machine.fastforward(steps) is entered: vec = Vec::new(), count = 0; steps is
\* << >> for Option::None (what main passes) and <<m>> for Some(m)
FastforwardCall(steps) ==
  /\ pc = "built"
  /\ pc' = "run"
  /\ ff' = [steps |-> steps, count |-> 0]
  /\ UNCHANGED <<tvars, store, cd, input, ndtm, vec, last, verdict>>

\* one round of the loop of fastforward: break when count has reached the
\* limit, else step; count is not assigned to in the loop
FastforwardIter ==
  /\ pc = "run"
  /\ IF ff.steps # << >> /\ ff.count >= ff.steps[1]
     THEN pc' = "returned" /\ UNCHANGED <<heap, ndtm, last, vec>>
     ELSE \E i \in PopChoices(ndtm) : FastforwardPush(i, NDTMStep(ndtm, store, i, heap))
  /\ UNCHANGED <<tapes, ideal, nops, nwrites, mode, lastOp, store, cd, input, verdict, ff>>

\* main prints the decision for the input
MainDecision ==
  /\ pc = "returned"
  /\ ff.steps = << >>
  /\ verdict' = Decision(vec[Len(vec)], ndtm.some_undecided)
  /\ pc' = "end"
  /\ UNCHANGED <<tvars, store, cd, input, ndtm, vec, last, ff>>

Next ==
  \/ \E r \in RuleUniverse : AddRule(r)
  \/ \E f \in States : AddFinal(f)
  \/ ComputeDistBegin
  \/ ComputeDistIter
  \/ \E slice \in Inputs, max_steps \in 0..MaxBudget : NewMachine(slice, max_steps)
  \/ \E steps \in Limits : FastforwardCall(steps)
  \/ FastforwardIter
  \/ MainDecision

Spec == Init /\ [][Next]_vars

\* ------------------------------------------------------------------ observation
\* The symbols a tape shows to a reader that walks it: n shifts in one direction,
\* reading after each; the tape the reader is left with.
RECURSIVE Reads(_, _, _, _)
Reads(t, H, dir, n) ==
  IF n = 0 THEN [reads |-> << >>, tape |-> t, H |-> H]
  ELSE LET r  == TapeShift(t, dir, H)
           rs == Reads(r.tape, r.H, dir, n - 1)
       IN  [reads |-> <<TapeRead(r.tape)>> \o rs.reads, tape |-> rs.tape, H |-> rs.H]

\* the number of cells a chain of links holds
RECURSIVE ChainLen(_, _)
ChainLen(l, H) ==
  IF l.t \in {"Same", "Uncle"} THEN 1 + ChainLen(H.c[l.rc].cell.next, H) ELSE 0

\* how far a reader walks to see every cell of a side and one cell past the edge
Reach(c, H) == W * (ChainLen(c.next, H) + 3)

\* What a tape holds, as read by walking from the cursor past the left edge, from
\* there past the right edge, and back to the cursor: every position is read on
\* the way out and again on the way back, after its cell has left the cache.
View(t, H) ==
  LET l == Reach(t.left, H)
      r == Reach(t.right, H)
      a == Reads(t, H, "Left", l)
      b == Reads(a.tape, a.H, "Right", l + r)
      c == Reads(b.tape, b.H, "Left", r)
  IN  [here |-> TapeRead(t), out |-> a.reads, across |-> b.reads, back |-> c.reads]

IdealAt(id, p) == IF p \in PosDom THEN id.arr[p] ELSE Blank

\* the same walk over the ideal array, l positions to the left and r to the right
IdealView(id, l, r) ==
  [here   |-> id.arr[id.pos],
   out    |-> [k \in 1..l |-> IdealAt(id, id.pos - k)],
   across |-> [k \in 1..(l + r) |-> IdealAt(id, id.pos - l + k)],
   back   |-> [k \in 1..r |-> IdealAt(id, id.pos + r - k)]]

\* C1: for a tape built by Tape::create and then only written and shifted,
\* read() returns what the ideal bi-infinite array holds under its cursor.
C1_ReadMatchesIdeal ==
  \A i \in 1..Len(tapes) : ideal[i].gen = 0 => TapeRead(tapes[i]) = IdealRead(ideal[i])

C5_ChildrenReadAsParent ==
  [][lastOp'.op = "split" =>
       \A k \in lastOp'.kids : View(tapes'[k], heap') = View(tapes[lastOp'.who], heap)]_tvars

\* every tape, split or not, reads at every position what its ideal array holds
ViewMatchesIdeal ==
  \A i \in 1..Len(tapes) :
    View(tapes[i], heap) =
      IdealView(ideal[i], Reach(tapes[i].left, heap), Reach(tapes[i].right, heap))

\* no operation of the tape driver panics
NoTapePanic == heap.p = ""

\* C1 witness: a tape never split reads, from a clean cache half, a symbol that
\* differs from the one it was created with: the written symbol went out to its
\* cell when the half was evicted and came back on a cache miss.
C1_Witness ==
  \E i \in 1..Len(tapes) :
    /\ ideal[i].gen = 0
    /\ tapes[i].cache.dirty = <<FALSE, FALSE>>
    /\ TapeRead(tapes[i]) # IdealCreate(ideal[i].init).arr[ideal[i].pos]
    /\ TapeRead(tapes[i]) = IdealRead(ideal[i])

C5_Witness ==
  /\ lastOp.op = "split"
  /\ \E k \in lastOp.kids :
       /\ tapes[k].cache.dirty = <<TRUE, TRUE>>
       /\ tapes[k].cache.current = "Right"
       /\ tapes[k].cache.buffer_l # tapes[k].cache.buffer_r

\* ------------------------------------------------------------------ scheduler, reference
\* Some sequence of at most k transitions the rule store allows leads from the
\* configuration (state, arr, pos) to a final state.
RECURSIVE Accepts(_, _, _, _, _)
Accepts(s, state, arr, pos, k) ==
  \/ is_final(s, state)
  \/ /\ k > 0
     /\ \E j \in 1..Len(get(s, state, arr[pos]).trs) :
          LET t == get(s, state, arr[pos]).trs[j]
          IN  Accepts(s, t.state, [arr EXCEPT ![pos] = t.symb], pos + Delta(t.dir), k - 1)

\* the run has come to its end: main has printed a decision, or a panic has
\* unwound it
RunOver == pc \in {"end", "panic"} /\ ff.steps = << >>

\* how fastforward(None) and main's match end from a scheduler state: the
\* decisions over all the positions pop may take, "abort" for a panic
RECURSIVE Outcomes(_, _, _)
OutcomeOf(r, rules) ==
  IF r.H.p # "" THEN {"abort"}
  ELSE IF r.res.t \in {"Success", "FailAll"} THEN {Decision(r.res, r.ndtm.some_undecided)}
  ELSE Outcomes(r.ndtm, rules, r.H)

Outcomes(nd, rules, H) ==
  UNION {OutcomeOf(NDTMStep(nd, rules, i, H), rules) : i \in PopChoices(nd)}

\* C2: the run ends with Success if and only if some sequence of at most
\* max_step transitions leads from state 0 on the first input symbol to a final
\* state.
C2_SuccessIffAcceptingPath ==
  RunOver =>
    ((verdict = "Success") <=>
       Accepts(store, 0, IdealCreate(input).arr, 0, ndtm.max_step))

\* the rule file of the looping machine: the one rule 0 _ _ R 0, 0 not final
LoopStore ==
  /\ RulesAdded(store) = 1
  /\ get(store, 0, Blank) = Simple(Transition(0, Blank, "Right"))
  /\ 0 \notin store.fin_s

\* C3: a run that ends with FailAll is Undecided exactly when a branch was
\* dropped for the budget and Failure exactly when none was; the looping machine
\* with budget 5 on a blank input ends Undecided.
C3_UndecidedIffBudgetDrop ==
  /\ (pc = "end" /\ vec[Len(vec)].t = "FailAll") =>
       /\ (verdict = "Undecided") <=> (\E k \in 1..Len(vec) : vec[k].t = "Undecided")
       /\ (verdict = "Undecided") <=> ndtm.some_undecided
       /\ (verdict = "Failure") <=> ~(\E k \in 1..Len(vec) : vec[k].t = "Undecided")
  /\ (RunOver /\ LoopStore /\ ndtm.max_step = 5 /\ input \in {<< >>, <<Blank>>}) =>
       verdict = "Undecided"

\* C6: fastforward(None) does not end without a result list: no step of its
\* loop aborts, and the list it returns ends with Success or FailAll.
C6_FastforwardReturns ==
  /\ ~(pc = "panic" /\ last.op = "step" /\ ff.steps = << >>)
  /\ (pc \in {"returned", "end"} /\ ff.steps = << >>) =>
       vec # << >> /\ vec[Len(vec)].t \in {"Success", "FailAll"}

\* C9: after a step that splits on Multi([t1,...,tn]) the child that holds the
\* i-th identifier of Split{new} holds ti as its pending transition.
C9_ChildrenInListOrder ==
  (pc = "run" /\ last.op = "step" /\ vec[Len(vec)].t = "Split") =>
    \A k \in 1..Len(vec[Len(vec)].new) :
      \E j \in 1..Len(ndtm.machines) :
        /\ ndtm.machines[j].idx = vec[Len(vec)].new[k]
        /\ ndtm.machines[j].instr_cache = <<last.trs[k]>>

\* C10: from the scheduler NDTM::new built, every order in which pop takes
\* branches that compare Equal ends the run the same way.
C10_SameVerdictEveryOrder ==
  (pc = "run" /\ vec = << >>) => Cardinality(Outcomes(ndtm, store, heap)) = 1

\* C7: every queued branch has depth <= max_step, and a branch popped with depth
\* equal to max_step is not stepped: the step returns Undecided with its
\* identifier, sets some_undecided and leaves the rest of the queue as it was.
C7_DepthWithinBudget ==
  /\ \A j \in 1..Len(ndtm.machines) : ndtm.machines[j].depth <= ndtm.max_step
  /\ (last.op = "step" /\ last.i # 0 /\ pc # "panic"
        /\ last.before[last.i].depth = ndtm.max_step) =>
       /\ vec[Len(vec)] = StepResult("Undecided", last.before[last.i].idx, << >>)
       /\ ndtm.some_undecided
       /\ Queued(ndtm) = Remove(last.before, last.i)

\* C7 witness: a branch that had applied a transition was popped at the budget
\* while another branch was queued.
C7_Witness ==
  /\ last.op = "step" /\ last.i # 0 /\ pc = "run"
  /\ Len(last.before) >= 2
  /\ last.before[last.i].depth = ndtm.max_step
  /\ ndtm.max_step >= 1
  /\ vec[Len(vec)].t = "Undecided"

\* the priority key of a queued branch
Key(b) == b.depth + distance(store, b.state).v

\* C8: the branch a step pops holds a pending transition if any queued branch
\* holds one; otherwise its depth + distance(state) is the minimum over the queue.
C8_PopHighestPriority ==
  (last.op = "step" /\ last.i # 0) =>
    LET popped == last.before[last.i]
    IN  IF \E j \in 1..Len(last.before) : last.before[j].pending
        THEN popped.pending
        ELSE \A j \in 1..Len(last.before) : Key(popped) <= Key(last.before[j])

\* C8 witness: a pop from a queue of branches without a pending transition whose
\* keys differ.
C8_Witness ==
  /\ last.op = "step" /\ last.i # 0
  /\ \A j \in 1..Len(last.before) : ~last.before[j].pending
  /\ \E j \in 1..Len(last.before) : Key(last.before[j]) > Key(last.before[last.i])

\* a pop that took a branch with a pending transition past a queued branch
\* without one
C8_WitnessPending ==
  /\ last.op = "step" /\ last.i # 0
  /\ last.before[last.i].pending
  /\ \E j \in 1..Len(last.before) : ~last.before[j].pending

\* C11: fastforward(Some(m)) returns a list of at most m results (one per
\* scheduler step performed).
C11_AtMostLimitSteps ==
  ff.steps # << >> => Len(vec) <= ff.steps[1]

\* ------------------------------------------------------------------ distances
\* the states a rule of the store leads to from state q
Succ(s, q) ==
  UNION { {s.rules[k].trs[i].state : i \in 1..Len(s.rules[k].trs)} :
          k \in {x \in DOMAIN s.rules : x.state = q} }

\* a final state is reached from q along at most k rule edges
RECURSIVE FinalWithin(_, _, _)
FinalWithin(s, q, k) ==
  \/ q \in s.fin_s
  \/ k > 0 /\ \E n \in Succ(s, q) : FinalWithin(s, n, k - 1)

\* compute_dist() has returned: its loop has found the queue empty
ComputeDistReturned == pc = "dist" /\ cd.queue = {}

\* C12: after compute_dist() has returned, distance(s) is defined exactly for
\* the states from which a final state is reachable along rule edges, and is the
\* number of edges of a shortest such path (0 for a final state): no path to a
\* final state is shorter.
C12_DistanceIsShortestPath ==
  ComputeDistReturned =>
    \A q \in States :
      LET d == distance(store, q)
      IN  /\ d.some <=> FinalWithin(store, q, MaxState)
          /\ d.some => /\ FinalWithin(store, q, d.v)
                       /\ \A k \in 0..MaxState : FinalWithin(store, q, k) => d.v <= k

\* compute_dist() has returned with a state that has no distance and a state
\* that was in the queue in two rounds (it has an edge to a state as far from
\* the final states as itself)
C12_Witness ==
  /\ ComputeDistReturned
  /\ \E q \in States : ~distance(store, q).some
  /\ \E q \in States, n \in States :
       /\ n \in Succ(store, q)
       /\ distance(store, q).some /\ distance(store, n).some
       /\ distance(store, q).v = 1 /\ distance(store, n).v = 1

\* the rule store alone: the tr and acc stages, then compute_dist()
DistNext ==
  \/ \E r \in RuleUniverse : AddRule(r)
  \/ \E f \in States : AddFinal(f)
  \/ ComputeDistBegin
  \/ ComputeDistIter

\* the loop of compute_dist goes on for as long as its condition holds
SpecDist == Init /\ [][DistNext]_vars /\ WF_vars(ComputeDistIter)

\* the queue the next round of the loop of compute_dist hands on
NextQueue == compute_dist_iter(store, cd).cd.queue

\* C13: compute_dist() terminates for every rule store and set of final states.
\* The queue of a round is a function of the queue of the round before (the
\* predecessor lists do not change in the loop), so a loop that ends never
\* hands a round the very queue, not empty, that the round started with.
C13_ComputeDistTerminates ==
  pc = "dist" => ~(cd.queue # {} /\ NextQueue = cd.queue)

\* C14: a state without a precomputed distance does not abort the run: the
\* scheduler is seeded when state 0 has no distance, and no step ends in the
\* panic of the unwrap in distance.
C14_MissingDistanceNoAbort ==
  /\ (last.op = "new" /\ ~distance(store, 0).some) =>
       (pc # "panic" /\ Len(ndtm.machines) = 1)
  /\ heap.p # UnwrapNone

\* C15: with a rule store that declares no final state, the run of main on an
\* input line ends with the verdict Failure, whatever the input, the transitions
\* and the budget.
C15_NoFinalStateFailure ==
  (RunOver /\ last.op # "none" /\ store.fin_s = {}) => verdict = "Failure"

\* some key of the store has a Multi output
HasMulti(s) == \E k \in DOMAIN s.rules : s.rules[k].kind = "Multi"

\* C16: as long as no key looked up during the run had a Multi output, the
\* queue holds at most one branch and no Split result has been returned.
C16_NoMultiSingleBranch ==
  ~last.multi =>
    /\ Len(ndtm.machines) <= 1
    /\ \A k \in 1..Len(vec) : vec[k].t # "Split"

\* a run of two steps or more that met no Multi output, on a store that has one,
\* with a branch still queued
C16_Witness ==
  /\ ~last.multi
  /\ HasMulti(store)
  /\ Len(vec) >= 2
  /\ Len(ndtm.machines) = 1

\* the identifiers assigned before the last step: the seed's, and those of the
\* children of the earlier splits
AssignedBefore ==
  {0} \cup {last.before[j].idx : j \in 1..Len(last.before)}
      \cup UNION {Range(vec[k].new) : k \in 1..(Len(vec) - 1)}

\* the last step of the run returned a Split result
LastIsSplit ==
  /\ last.op = "step"
  /\ pc # "panic"
  /\ vec # << >>
  /\ vec[Len(vec)].t = "Split"

\* C17: no two queued branches share an identifier, and the identifiers handed
\* to the children of a split are strictly greater than every identifier
\* assigned before (the seed's is 0), each greater than the one before it.
C17_FreshIdentifiers ==
  /\ \A i, j \in 1..Len(ndtm.machines) :
       i # j => ndtm.machines[i].idx # ndtm.machines[j].idx
  /\ LastIsSplit =>
       LET new == vec[Len(vec)].new
       IN  /\ \A n \in 1..Len(new) : \A a \in AssignedBefore : new[n] > a
           /\ \A x, y \in 1..Len(new) : x < y => new[x] < new[y]

\* a second split of a run: its children join a branch born of the first split
C17_Witness ==
  /\ LastIsSplit
  /\ \E k \in 1..(Len(vec) - 1) : vec[k].t = "Split"
  /\ Len(vec[Len(vec)].new) >= 2
  /\ Len(ndtm.machines) >= 3

\* ------------------------------------------------------------------ round trips
\* what a tape holds around its cursor: the symbols a reader meets walking l
\* positions to the left of the cursor, and r positions to its right
WalkView(t, H, l, r) ==
  [here  |-> TapeRead(t),
   left  |-> Reads(t, H, "Left", l).reads,
   right |-> Reads(t, H, "Right", r).reads]

Opposite(d) == IF d = "Left" THEN "Right" ELSE "Left"

\* shift(opposite(d)) on a, the tape and heap that shift(d) has left
ShiftBack(a, d) == TapeShift(a.tape, Opposite(d), a.H)

\* shift(d) then shift(opposite(d))
RoundTrip(t, d, H) == ShiftBack(TapeShift(t, d, H), d)

\* rt, the tape and heap after a round trip of tape t, reads as t does over the
\* window l, r, with the cursor at the same offset of its cell; a round trip
\* that hands back the very same tape and heap needs no walk
SameReading(t, H, rt, l, r) ==
  /\ rt.H.p = ""
  /\ \/ rt.tape = t /\ rt.H = H
     \/ /\ rt.tape.cache.cursor = t.cache.cursor
        /\ WalkView(rt.tape, rt.H, l, r) = WalkView(t, H, l, r)

\* the round trip over d leaves tape t as it reads, at the cursor and at every
\* position of its cells and one cell past each edge
RoundTripKeeps(t, d, H) ==
  SameReading(t, H, RoundTrip(t, d, H), Reach(t.left, H), Reach(t.right, H))

\* C18: on every reachable tape, shift(d) followed by shift(opposite(d)) brings
\* the cursor back to the same cell and offset: read() returns the same symbol
\* and every other position holds the symbol it held.
C18_ShiftRoundTrip ==
  heap.p = "" =>
    \A i \in 1..Len(tapes) : \A d \in {"Left", "Right"} : RoundTripKeeps(tapes[i], d, heap)

\* a tape that has been written, shifted and split, whose round trip leaves the
\* cache and writes the evicted dirty half back to a cell
C18_Witness ==
  /\ heap.p = ""
  /\ Len(tapes) >= 2
  /\ lastOp.op = "shift"
  /\ \E i \in 1..Len(tapes) : \E d \in {"Left", "Right"} :
       /\ CacheShift(tapes[i].cache, d).ret = "OutCacheFail"
       /\ tapes[i].cache.dirty # <<FALSE, FALSE>>
       /\ RoundTrip(tapes[i], d, heap).H # heap
       /\ RoundTripKeeps(tapes[i], d, heap)

\* ------------------------------------------------------------------ rule store
\* the Output that stands for a list of transitions: None for none, Simple for
\* one, Multi for two or more
OutputOf(v) ==
  IF v = << >> THEN OutputNone ELSE IF Len(v) = 1 THEN Simple(v[1]) ELSE Multi(v)

\* the predecessors recorded for a state
Predecessors(s, state) ==
  IF state \in DOMAIN s.states_backtrace THEN s.states_backtrace[state] ELSE << >>

\* add_rule(state_in, symb_in, symb_out, state_out, dir) has taken the store from
\* s to s2: the key's output lists the key's transitions so far, the new one
\* last; every other key's output is as before; state_in is recorded as a
\* predecessor of state_out
AddedTo(s, s2, state_in, symb_in, symb_out, state_out, dir) ==
  /\ get(s2, state_in, symb_in) =
       OutputOf(Append(get(s, state_in, symb_in).trs, Transition(state_out, symb_out, dir)))
  /\ \A q \in States, a \in Symbols :
       (q # state_in \/ a # symb_in) => get(s2, q, a) = get(s, q, a)
  /\ Predecessors(s2, state_out) = Append(Predecessors(s, state_out), state_in)

\* C19: get of an empty store is None for every key, and every add_rule call
\* appends its transition to the output of its own key (None, then Simple, then
\* Multi in insertion order), leaves every other key's output as it was, and
\* records state_in as a predecessor of state_out.
C19_GetReflectsAdds ==
  [][\A r \in RuleUniverse :
       AddRule(r) =>
         /\ AddedTo(store, store', r[1], r[2], r[3], r[5], r[4])
         /\ RulesAdded(store) = 0 =>
              \A q \in States, a \in Symbols : get(store, q, a) = OutputNone]_vars

\* a store after add_rule calls: one key with three transitions, another with one
C19_Witness ==
  /\ \E q \in States, a \in Symbols : Len(get(store, q, a).trs) = 3
  /\ \E q \in States, a \in Symbols : get(store, q, a).kind = "Simple"
  /\ \E q \in States : Len(Predecessors(store, q)) = 3

\* ------------------------------------------------------------------ cache moves
\* the position of a cache's cursor in the window of its two halves, the left
\* half first: 0 .. 2W - 1
WindowPos(c) == IF c.current = "Left" THEN c.cursor ELSE W + c.cursor

\* r is what Cache::shift(dir) hands back on cache c, as the claim has it: the
\* cursor moves by one inside the window of the two halves (inside the active
\* half with ret Stay, into the other half with ret InCache naming it, at offset
\* W - 1 entering the left half and 0 entering the right); a move out of the
\* window is OutCacheFail naming dir and changes nothing; Stay changes nothing;
\* buffers and dirty flags are never changed
ShiftAsClaimed(c, dir, r) ==
  LET to == WindowPos(c) + Delta(dir)
  IN  /\ r.cache.buffer_l = c.buffer_l /\ r.cache.buffer_r = c.buffer_r
      /\ r.cache.dirty = c.dirty
      /\ r.cache.cursor \in 0..(W - 1)
      /\ IF dir = "Stay"
         THEN r.cache = c /\ r.ret = "Stay"
         ELSE IF to \in 0..(2 * W - 1)
         THEN /\ WindowPos(r.cache) = to
              /\ IF r.cache.current = c.current
                 THEN r.ret = "Stay"
                 ELSE /\ r.ret = "InCache" /\ r.side = dir /\ r.cache.current = dir
                      /\ r.cache.cursor = (IF dir = "Left" THEN W - 1 ELSE 0)
         ELSE r.cache = c /\ r.ret = "OutCacheFail" /\ r.side = dir

\* C20: on the cache of every reachable tape, Cache::shift(dir) moves the offset
\* by one inside the active half, switches to the inactive half at the edge when
\* that half lies in dir, and otherwise returns OutCacheFail(dir) leaving the
\* cache as it was; shift(Stay) changes nothing; no shift changes a buffer or a
\* dirty flag.
C20_CacheShift ==
  \A i \in 1..Len(tapes) : \A dir \in {"Left", "Right", "Stay"} :
    ShiftAsClaimed(tapes[i].cache, dir, CacheShift(tapes[i].cache, dir))

\* a tape that has moved, with a written half, its cursor at the left edge of
\* the left half (a shift to the left fails, one to the right stays in the
\* half), and a second tape at the right edge of its left half (a shift to the
\* right switches halves)
C20_Witness ==
  /\ lastOp.op = "shift"
  /\ \E i \in 1..Len(tapes) :
       /\ tapes[i].cache.current = "Left" /\ tapes[i].cache.cursor = 0
       /\ tapes[i].cache.dirty # <<FALSE, FALSE>>
       /\ CacheShift(tapes[i].cache, "Left").ret = "OutCacheFail"
  /\ \E j \in 1..Len(tapes) :
       /\ tapes[j].cache.current = "Left" /\ tapes[j].cache.cursor = W - 1
       /\ CacheShift(tapes[j].cache, "Right").ret = "InCache"

\* ------------------------------------------------------------------ cache halves
\* the buffer and the dirty flag of the half of a cache on a side
HalfBuf(c, side) == IF side = "Left" THEN c.buffer_l ELSE c.buffer_r

HalfDirty(c, side) == IF side = "Left" THEN c.dirty[1] ELSE c.dirty[2]

\* the cell a tape holds on a side
SideCell(t, side) == IF side = "Left" THEN t.left ELSE t.right

\* every buffer of W symbols
Buffers == [1..W -> Symbols]

\* a shift of cache c in direction d misses the cache
Misses(c, d) == CacheShift(c, d).ret = "OutCacheFail"

\* fl is what shift_flush(d, nb) hands back on cache c after a miss in d, as the
\* claim has it
FlushAsClaimed(c, d, nb, fl) ==
  /\ fl.H.p = ""
  /\ HalfBuf(fl.cache, Opposite(d)) = HalfBuf(c, c.current)
  /\ HalfDirty(fl.cache, Opposite(d)) = HalfDirty(c, c.current)
  /\ HalfBuf(fl.cache, d) = nb
  /\ HalfDirty(fl.cache, d) = FALSE
  /\ fl.cache.current = d
  /\ fl.cache.cursor = (IF d = "Left" THEN W - 1 ELSE 0)
  /\ fl.out = (IF HalfDirty(c, Opposite(c.current))
               THEN HalfBuf(c, Opposite(c.current)) ELSE None)

\* rt is what Tape::shift(d) hands back on tape t after a miss in d: the half
\* loaded is the buffer of the neighbour cell on side d (blanks for an Empty
\* cell), and the cell that was the neighbour on the other side, now linked
\* behind the cell that was in focus, holds the evicted half when it was dirty
ShiftWritesBack(t, d, H, rt) ==
  LET o    == Opposite(d)
      rd   == CellRead(SideCell(t, d), H)
      back == SideCell(rt.tape, o).next
  IN  /\ rt.H.p = ""
      /\ HalfBuf(rt.tape.cache, d) = (IF rd # None THEN rd ELSE empty_buff(t.empty))
      /\ back.t = "Same"
      /\ HalfDirty(t.cache, o) =>
           CellRead(rt.H.c[back.rc].cell, rt.H) = HalfBuf(t.cache, o)

\* C21: after a miss in direction d, shift_flush(d, new_buf) slides the active
\* half and its dirty flag to the opposite slot, loads new_buf clean into the
\* slot on side d, which is the active one, with the offset next to the old
\* cell, and returns the formerly inactive half exactly when it was dirty;
\* Tape::shift writes that buffer to the neighbour cell opposite to d.
C21_ShiftFlush ==
  heap.p = "" =>
    \A i \in 1..Len(tapes) : \A d \in {"Left", "Right"} :
      Misses(tapes[i].cache, d) =>
        /\ \A nb \in Buffers :
             FlushAsClaimed(tapes[i].cache, d, nb, shift_flush(tapes[i].cache, d, nb, heap))
        /\ ShiftWritesBack(tapes[i], d, heap, TapeShift(tapes[i], d, heap))

\* a tape that has moved and stands at a miss with both halves written
C21_Witness ==
  /\ heap.p = ""
  /\ lastOp.op = "shift"
  /\ \E i \in 1..Len(tapes) : \E d \in {"Left", "Right"} :
       /\ Misses(tapes[i].cache, d)
       /\ tapes[i].cache.dirty = <<TRUE, TRUE>>
       /\ HalfBuf(tapes[i].cache, "Left") # HalfBuf(tapes[i].cache, "Right")
       /\ shift_flush(tapes[i].cache, d, empty_buff(Blank), heap).out # None
       /\ ShiftWritesBack(tapes[i], d, heap, TapeShift(tapes[i], d, heap))

\* C22: on every reachable cache, for either active side, flush_other() names
\* the side of the inactive half and returns that half's buffer when its dirty
\* flag is set, None when it is clear; flush_current() does the same for the
\* active half.  (Both are pure: they take &self and hand back copies.)
C22_FlushReturnsOwnHalf ==
  \A i \in 1..Len(tapes) :
    LET c == tapes[i].cache
        o == Opposite(c.current)
    IN  /\ flush_other(c) = [side |-> o,
                             out  |-> IF HalfDirty(c, o) THEN HalfBuf(c, o) ELSE None]
        /\ flush_current(c) = (IF HalfDirty(c, c.current)
                               THEN HalfBuf(c, c.current) ELSE None)

\* C23: in every tape that Tape::split hands back, both dirty flags of the cache
\* are false, whatever the flags of the parent were.
C23_ChildrenClean ==
  lastOp.op = "split" =>
    \A k \in lastOp.kids : tapes[k].cache.dirty = <<FALSE, FALSE>>

\* ------------------------------------------------------------------ links
\* no link of the chain that starts at link l is None
RECURSIVE ChainNoNone(_, _)
ChainNoNone(l, H) ==
  CASE l.t = "Edge" -> TRUE
    [] l.t = "None" -> FALSE
    [] OTHER        -> ChainNoNone(H.c[l.rc].cell.next, H)

\* C24, as stated: after every completed tape operation no cell a tape holds
\* (left, focus, right) and no cell reachable through their links has a None
\* link.
C24_NoNoneLink ==
  heap.p = "" =>
    \A i \in 1..Len(tapes) :
      /\ ChainNoNone(tapes[i].left.next, heap)
      /\ ChainNoNone(tapes[i].focus.next, heap)
      /\ ChainNoNone(tapes[i].right.next, heap)

\* C24, amended: after every completed tape operation the cell in focus is
\* detached, its link is None (Cell::focus takes the link out and nothing puts
\* one back until the cell is shifted onto a side); the left and right cells and
\* every cell reachable through their links have no None link.
C24_NoneLinkOnlyInFocus ==
  heap.p = "" =>
    \A i \in 1..Len(tapes) :
      /\ tapes[i].focus.next.t = "None"
      /\ ChainNoNone(tapes[i].left.next, heap)
      /\ ChainNoNone(tapes[i].right.next, heap)

\* after a shift, among the tapes of a split, one with two cells or more linked
\* behind its right cell and a cell linked behind its left cell
C24_Witness ==
  /\ heap.p = ""
  /\ lastOp.op = "shift"
  /\ Len(tapes) >= 2
  /\ \E i \in 1..Len(tapes) :
       /\ ChainLen(tapes[i].right.next, heap) >= 2
       /\ ChainLen(tapes[i].left.next, heap) >= 1
       /\ tapes[i].focus.next.t = "None"

\* ------------------------------------------------------------------ cache image
\* what the cache loads for a cell: its buffer, W blanks for an Empty cell
CellImage(c, empty, H) ==
  IF CellRead(c, H) # None THEN CellRead(c, H) ELSE empty_buff(empty)

\* a half of the cache of tape t that is not dirty equals the image of cell
CleanHalfImages(t, side, cell, H) ==
  ~HalfDirty(t.cache, side) => HalfBuf(t.cache, side) = CellImage(cell, t.empty, H)

\* C25: after every completed tape operation the active half of the cache
\* images the focus cell and the inactive half the neighbour cell on its own
\* side: a half whose dirty flag is false equals the buffer of its cell, W
\* blanks when the cell is Empty.
C25_CleanHalvesImageCells ==
  heap.p = "" =>
    \A i \in 1..Len(tapes) :
      LET t == tapes[i]
          o == Opposite(t.cache.current)
      IN  /\ CleanHalfImages(t, t.cache.current, t.focus, heap)
          /\ CleanHalfImages(t, o, SideCell(t, o), heap)

\* after a shift, among the tapes of a split, a tape with a written half and a
\* clean half that is not blank
C25_Witness ==
  /\ heap.p = ""
  /\ lastOp.op = "shift"
  /\ Len(tapes) >= 2
  /\ \E i \in 1..Len(tapes) : \E side \in {"Left", "Right"} :
       /\ HalfDirty(tapes[i].cache, Opposite(side))
       /\ ~HalfDirty(tapes[i].cache, side)
       /\ HalfBuf(tapes[i].cache, side) # empty_buff(Blank)

\* ------------------------------------------------------------------ depth
\* the queued branches other than those of the identifiers in ids
Others(machines, ids) == {m \in Range(machines) : m.idx \notin ids}

\* the queued branch of identifier id
Branch(machines, id) == CHOOSE m \in Range(machines) : m.idx = id

\* the step that popped branch m from queue q and returned res, leaving queue
\* q2 and heap H2: what it did to the depths, as the claim has it
DepthAsClaimed(m, q, H, res, q2, H2) ==
  CASE res.t = "DetStep" ->
         /\ Branch(q2, m.idx).depth = m.depth + 1
         /\ Others(q2, {m.idx}) = Others(q, {m.idx})
    [] res.t = "Success" ->
         /\ TMStep(m, store, H).machine.depth = m.depth + 1
         /\ Others(q2, {}) = Others(q, {m.idx})
    [] res.t = "Split" ->
         /\ TMStep(m, store, H).machine = m
         /\ res.new # << >>
         /\ \A k \in 1..Len(res.new) :
              LET c == Branch(q2, res.new[k])
              IN  /\ c.state = m.state
                  /\ c.depth = m.depth
                  /\ WalkView(c.tape, H2, Reach(m.tape.left, H), Reach(m.tape.right, H))
                       = WalkView(m.tape, H, Reach(m.tape.left, H), Reach(m.tape.right, H))
         /\ Others(q2, Range(res.new)) = Others(q, {m.idx})
    [] res.t = "BranchFail" ->
         /\ TMStep(m, store, H).machine = m
         /\ Others(q2, {}) = Others(q, {m.idx})
    [] res.t = "Undecided" ->
         Others(q2, {}) = Others(q, {m.idx})
    [] OTHER -> TRUE

\* C26: the seed starts at depth 0, and a scheduler step that returns DetStep or
\* Success raises the depth of the stepped branch, and of no other, by 1; a step
\* that returns Split, BranchFail or Undecided applies no transition, and the
\* children of a split carry the state and the depth of the parent and read
\* what the parent's tape read, at every position.
C26_DepthCountsTransitions ==
  [][/\ (pc = "built" => ndtm.machines[1].depth = 0)
     /\ (pc = "run" /\ Len(vec') = Len(vec) + 1 /\ last'.i # 0) =>
          DepthAsClaimed(ndtm.machines[last'.i], ndtm.machines, heap,
                         vec'[Len(vec')], ndtm'.machines, heap')]_vars

\* a split of a branch that has applied a transition, on a tape that is not
\* blank, with another branch in the queue
C26_Witness ==
  /\ LastIsSplit
  /\ last.before[last.i].depth >= 1
  /\ Len(last.before) >= 2
  /\ \E m \in Range(ndtm.machines) :
       /\ m.idx \in Range(vec[Len(vec)].new)
       /\ m.depth >= 1
       /\ HalfBuf(m.tape.cache, m.tape.cache.current) # empty_buff(Blank)

\* ------------------------------------------------------------------ fatal conditions
\* the panics of the tape engine and of the scheduler other than the unwrap of
\* a missing distance
FatalMessages ==
  { "Cache should always be empty if splitting the machine",
    "Not enough rules for the split, impossible",
    "There should have been enough tapes",
    "Shouldn't have called shift_flush",
    "Erroneous call to shift_flush",
    "This shouldn't have been None",
    "This should've been the only Rc to the cell" }

\* C27: no sequence of scheduler steps ends in a fatal condition other than the
\* unwrap of a missing distance: no split of a branch with a pending transition,
\* no split with a tape too few or too many, no shift_flush outside a miss, no
\* None link focused, no Same link focused to a cell with another reference.
C27_NoFatalCondition ==
  /\ heap.p \notin FatalMessages
  /\ heap.p \in {"", UnwrapNone}

\* a run with a split that ended in Success at depth 2 or more without a panic
C27_Witness ==
  /\ heap.p = ""
  /\ pc = "returned"
  /\ vec # << >>
  /\ vec[Len(vec)].t = "Success"
  /\ last.before[last.i].depth >= 2
  /\ \E k \in 1..Len(vec) : vec[k].t = "Split" /\ Len(vec[k].new) >= 2

\* the positions of the queue whose branch holds a pending transition
PendingQueued(nd) == {j \in 1..Len(nd.machines) : nd.machines[j].instr_cache # << >>}

\* result k of the run is the split whose children the queued pending branches
\* are, and every later result is one of these children applying its transition
SiblingsOf(nd, results, k) ==
  /\ results[k].t = "Split"
  /\ \A j \in PendingQueued(nd) : nd.machines[j].idx \in Range(results[k].new)
  /\ \A k2 \in (k + 1)..Len(results) :
        /\ results[k2].t \in {"DetStep", "Success"}
        /\ results[k2].machine \in Range(results[k].new)

\* C28: the queued branches that hold a pending transition are the children of
\* one split, with one state and one depth; and a step taken while such a
\* branch is queued pops one of them, within the budget, and applies its
\* transition: it looks no rule up, splits nothing and drops no branch.
C28_PendingSiblingsFirst ==
  /\ \A a, b \in PendingQueued(ndtm) :
        /\ ndtm.machines[a].state = ndtm.machines[b].state
        /\ ndtm.machines[a].depth = ndtm.machines[b].depth
  /\ PendingQueued(ndtm) # {} => \E k \in 1..Len(vec) : SiblingsOf(ndtm, vec, k)
  /\ (last.op = "step" /\ \E j \in 1..Len(last.before) : last.before[j].pending) =>
        /\ last.i # 0
        /\ last.before[last.i].pending
        /\ last.before[last.i].depth < ndtm.max_step
        /\ Len(ndtm.machines) <= Len(last.before)
        /\ IF pc = "panic"
           THEN heap.p = UnwrapNone
           ELSE vec # << >> /\ vec[Len(vec)].t \in {"DetStep", "Success"}

\* a child of a later split of a run has applied its transition while a sibling
\* still holds its own and a branch of an earlier split waits in the queue
C28_Witness ==
  /\ last.op = "step" /\ last.i # 0
  /\ pc # "panic"
  /\ last.before[last.i].pending
  /\ PendingQueued(ndtm) # {}
  /\ \E k \in 2..(Len(vec) - 1) :
        /\ SiblingsOf(ndtm, vec, k)
        /\ vec[Len(vec)].machine \in Range(vec[k].new)
        /\ \E j \in 1..Len(ndtm.machines) :
              /\ ndtm.machines[j].instr_cache = << >>
              /\ ndtm.machines[j].idx \notin Range(vec[k].new)

====
